---- MODULE Spec2Model ----
(***************************************************************************)
(* A model of the ReqWise API (kfraz93/reqwise-api): accounts, bearer      *)
(* tokens, the role and ownership gates, and the project / requirement     *)
(* operations of app/routers, over the store of app/crud.py.               *)
(*                                                                         *)
(* Time is counted in minutes.  A request is served by a worker process;   *)
(* every database round trip of a handler is one atomic step, so requests  *)
(* served by different workers interleave between their round trips.       *)
(***************************************************************************)
EXTENDS Integers, Sequences, FiniteSets, Bags, TLC

VARIABLES
    users,          \* rows of table "users"
    projects,       \* rows of table "projects"
    requirements,   \* rows of table "requirements"
    now,            \* the clock, in minutes
    minted,         \* tokens handed out by login, held by clients
    inflight,       \* requests being served, one record per busy worker
    last,           \* the response delivered by the last step (NoResponse if none)
    probe,          \* token codec under test: a token, its provenance, its decoding
    deleted         \* history: ids of the requirements a delete request has removed

vars == <<users, projects, requirements, now, minted, inflight, last, probe, deleted>>

(***************************************************************************)
(* Python's None, and optional values.                                     *)
(***************************************************************************)
None == [none |-> TRUE]

\* An optional scalar is <<>> (None) or <<v>>.
Some(v) == <<v>>
Nothing == <<>>

(***************************************************************************)
(* Bounds and universes.                                                   *)
(***************************************************************************)
MaxClock == 32          \* the clock stops here
MaxProjects == 2        \* rows of table "projects"
MaxReqs == 2            \* rows of table "requirements", one worker
MaxReqsConc == 1        \* rows of table "requirements", two workers
MaxUsers == 2           \* rows of table "users" where accounts are registered
MaxUserId == 3          \* highest id given to an account that registers
MaxProjectId == 2       \* highest id given to a project

Emails == {"alice@x.io", "carol@x.io"}

(***************************************************************************)
(* app/security.py: configuration.                                         *)
(***************************************************************************)
SECRET_KEY == "K"
ALGORITHM == "HS256"
ACCESS_TOKEN_EXPIRE_MINUTES == 30

\* A secret other than the process secret (another deployment, an attacker).
OtherKey == "K2"

(***************************************************************************)
(* python-jose, as app/security.py uses it.  A compact JWS is              *)
(* base64url(header).base64url(claims).base64url(signature).  The model    *)
(* keeps the decoded header algorithm, the claims, the signature bytes     *)
(* (mac) and `slack`: the two low-order bits of the last signature         *)
(* character.  A 32-byte HMAC-SHA256 value fills 42 characters and four    *)
(* bits of the 43rd; base64 decoding drops the other two bits.             *)
(***************************************************************************)
JWTError == [error |-> "JWTError"]

\* HMAC-SHA256 over the signing input, as a symbolic (collision-free) value.
HS256(key, alg, claims) == [key |-> key, alg |-> alg, claims |-> claims]

jwt_encode(claims, key, alg) ==
    [kind |-> "jws", alg |-> alg, claims |-> claims,
     mac |-> HS256(key, alg, claims), slack |-> 0]

\* A string that is not three base64url segments of JSON.
MalformedToken == [kind |-> "malformed"]

\* jwt.decode with options={"verify_signature": False}.
jwt_decode_unverified(token, key, alg, t) ==
    IF token.kind # "jws" THEN JWTError
    ELSE IF "exp" \in DOMAIN token.claims /\ token.claims.exp < t THEN JWTError
    ELSE token.claims

\* jwt.decode with options={"verify_exp": False}.
jwt_decode_noexp(token, key, alg, t) ==
    IF token.kind # "jws" THEN JWTError
    ELSE IF token.alg # alg THEN JWTError
    ELSE IF token.mac # HS256(key, token.alg, token.claims) THEN JWTError
    ELSE token.claims

\* jose.jwt.decode(token, key, algorithms=[alg]) at clock time t: the claims,
\* or JWTError (JWSError, ExpiredSignatureError and JWTClaimsError are JWTErrors).
jwt_decode(token, key, alg, t) ==
    IF token.kind # "jws" THEN JWTError
    ELSE IF token.alg # alg THEN JWTError
    ELSE IF token.mac # HS256(key, token.alg, token.claims) THEN JWTError
    ELSE IF "exp" \in DOMAIN token.claims /\ token.claims.exp < t THEN JWTError
    ELSE token.claims

(***************************************************************************)
(* app/security.py: create_access_token, decode_access_token.              *)
(***************************************************************************)
\* The default lifetime passed as timedelta(seconds=...): under a minute.
create_access_token_seconds(data, expires_delta, t) ==
    LET expire == IF expires_delta # Nothing /\ expires_delta[1] # 0
                  THEN t + expires_delta[1]
                  ELSE t + (ACCESS_TOKEN_EXPIRE_MINUTES \div 60)
        to_encode == [k \in DOMAIN data \cup {"exp"} |->
                         IF k = "exp" THEN expire ELSE data[k]]
    IN jwt_encode(to_encode, SECRET_KEY, ALGORITHM)

\* A default lifetime of a quarter of an hour.
create_access_token_quarter(data, expires_delta, t) ==
    LET expire == IF expires_delta # Nothing /\ expires_delta[1] # 0
                  THEN t + expires_delta[1]
                  ELSE t + 15
        to_encode == [k \in DOMAIN data \cup {"exp"} |->
                         IF k = "exp" THEN expire ELSE data[k]]
    IN jwt_encode(to_encode, SECRET_KEY, ALGORITHM)

\* expires_delta is Nothing (None) or Some(minutes); `if expires_delta:` is
\* false for None and for a zero timedelta.
create_access_token(data, expires_delta, t) ==
    LET expire == IF expires_delta # Nothing /\ expires_delta[1] # 0
                  THEN t + expires_delta[1]
                  ELSE t + ACCESS_TOKEN_EXPIRE_MINUTES
        to_encode == [k \in DOMAIN data \cup {"exp"} |->
                         IF k = "exp" THEN expire ELSE data[k]]
    IN jwt_encode(to_encode, SECRET_KEY, ALGORITHM)

TokenData(username) == [username |-> username]

decode_access_token(token, t) ==
    LET payload == jwt_decode(token, SECRET_KEY, ALGORITHM, t)
    IN IF payload = JWTError THEN None
       ELSE IF "sub" \notin DOMAIN payload THEN None
       ELSE TokenData(payload.sub)

(***************************************************************************)
(* app/models.py: enumerations and rows.                                   *)
(***************************************************************************)
UserRole == {"customer", "owner"}
RequirementType == {"must_have", "nice_to_have"}
RequirementStatus == {"pending", "in_PROGRESS", "done"}

Max(S) == CHOOSE m \in S : \A x \in S : x <= m

\* SQLite's INTEGER PRIMARY KEY without AUTOINCREMENT: a new row takes one more
\* than the largest id in the table, so the id of a removed last row is reused.
NextId(table) == IF table = {} THEN 1 ELSE Max({r.id : r \in table}) + 1

\* Query(...).first() on a column that identifies at most one row.
First(rows) == IF rows = {} THEN None ELSE CHOOSE r \in rows : TRUE

\* Rows in storage (id) order, as a sequence.
RECURSIVE InIdOrder(_)
InIdOrder(rows) ==
    IF rows = {} THEN <<>>
    ELSE LET lo == CHOOSE r \in rows : \A q \in rows : r.id <= q.id
         IN <<lo>> \o InIdOrder(rows \ {lo})

\* .offset(skip).limit(limit).all()
Page(rows, skip, limit) ==
    LET s == InIdOrder(rows)
    IN [i \in 1..(IF Len(s) - skip < 0 THEN 0
                  ELSE IF Len(s) - skip < limit THEN Len(s) - skip
                  ELSE limit) |-> s[i + skip]]

Range(s) == {s[i] : i \in DOMAIN s}

DefaultSkip == 0
DefaultLimit == 100

(***************************************************************************)
(* app/security.py: password hashing (bcrypt through passlib).             *)
(***************************************************************************)
\* bcrypt reads the first 72 bytes of the password; passlib's bcrypt handler
\* (truncate_size 72, truncate_error off) passes longer passwords on.
BcryptTruncateSize == 72

Truncate(password) ==
    IF Len(password) > BcryptTruncateSize THEN SubSeq(password, 1, BcryptTruncateSize)
    ELSE password

\* A bcrypt hash string holds the salt and the digest of (password, salt).
bcrypt(password, salt) == [scheme |-> "bcrypt", salt |-> salt,
                           digest |-> <<Truncate(password), salt>>]

(***************************************************************************)
(* app/crud.py.  Each operator is one database round trip on the table it  *)
(* is given; an operator that writes returns the new table and the row.    *)
(***************************************************************************)
get_user_by_email(tbl, email) == First({u \in tbl : u.email = email})

get_user_by_username(tbl, username) == First({u \in tbl : u.username = username})

\* owner_id taken from the new row's own id.
create_project_own_id(tbl, project, owner_id) ==
    LET db_project == [id |-> NextId(tbl), name |-> project.name,
                       description |-> project.description, owner_id |-> NextId(tbl)]
    IN [table |-> tbl \cup {db_project}, row |-> db_project]

create_project(tbl, project, owner_id) ==
    LET db_project == [id |-> NextId(tbl), name |-> project.name,
                       description |-> project.description, owner_id |-> owner_id]
    IN [table |-> tbl \cup {db_project}, row |-> db_project]

\* A look-up that takes any stored project for the one asked for.
get_project_any(tbl, project_id) == First(tbl)

get_project(tbl, project_id) == First({p \in tbl : p.id = project_id})

\* A listing that does not filter by owner.
get_projects_any_owner(tbl, owner_id, skip, limit) ==
    Page(tbl, skip, limit)

get_projects_by_owner(tbl, owner_id, skip, limit) ==
    Page({p \in tbl : p.owner_id = owner_id}, skip, limit)

get_all_projects(tbl, skip, limit) == Page(tbl, skip, limit)

\* INSERT and commit; status takes the column default.
create_project_requirement(tbl, requirement, project_id) ==
    LET db_requirement == [id |-> NextId(tbl),
                           description |-> requirement.description,
                           type |-> requirement.type,
                           status |-> "pending",
                           project_id |-> project_id]
    IN [table |-> tbl \cup {db_requirement}, row |-> db_requirement]

get_requirement(tbl, requirement_id) ==
    First({r \in tbl : r.id = requirement_id})

\* A listing that does not filter by project.
get_requirements_unfiltered(tbl, project_id, skip, limit) ==
    Page(tbl, skip, limit)

get_requirements_by_project(tbl, project_id, skip, limit) ==
    Page({r \in tbl : r.project_id = project_id}, skip, limit)

\* An update that gives an omitted type the default of RequirementBase.
update_requirement_replace(db_requirement, requirement_update) ==
    [db_requirement EXCEPT
        !.description = IF requirement_update.description # Nothing
                        THEN requirement_update.description[1] ELSE @,
        !.type = IF requirement_update.type # Nothing
                 THEN requirement_update.type[1] ELSE "must_have"]

\* update_requirement up to the commit: the attributes assigned on the loaded
\* object.  A field of the request that is None is not assigned.
update_requirement_assign(db_requirement, requirement_update) ==
    [db_requirement EXCEPT
        !.description = IF requirement_update.description # Nothing
                        THEN requirement_update.description[1] ELSE @,
        !.type = IF requirement_update.type # Nothing
                 THEN requirement_update.type[1] ELSE @]

update_requirement_status_assign(db_requirement, new_status) ==
    [db_requirement EXCEPT !.status = new_status.status]

\* Session.commit() of an object loaded as `loaded` and now holding `dirty`:
\* UPDATE ... SET <the attributes whose value changed> WHERE id = loaded.id.
\* No changed attribute, no statement.  An UPDATE that matches no row raises
\* StaleDataError.
Changed(loaded, dirty) ==
    {f \in {"description", "type", "status"} : dirty[f] # loaded[f]}

FlushUpdate(tbl, loaded, dirty) ==
    LET fields == Changed(loaded, dirty)
        hit == {r \in tbl : r.id = loaded.id}
    IN IF fields = {} THEN [stale |-> FALSE, table |-> tbl]
       ELSE IF hit = {} THEN [stale |-> TRUE, table |-> tbl]
       ELSE [stale |-> FALSE,
             table |-> {IF r \in hit
                        THEN [f \in DOMAIN r |-> IF f \in fields THEN dirty[f] ELSE r[f]]
                        ELSE r : r \in tbl}]

\* Session.refresh(obj): SELECT ... WHERE id = obj.id; None stands for the
\* InvalidRequestError raised when the row is gone.
Refresh(tbl, obj) == First({r \in tbl : r.id = obj.id})

\* delete_requirement: the query, then DELETE ... WHERE id = obj.id and commit.
delete_requirement_query(tbl, requirement_id) ==
    First({r \in tbl : r.id = requirement_id})

delete_requirement_commit(tbl, db_requirement) ==
    {r \in tbl : r.id # db_requirement.id}

(***************************************************************************)
(* Exceptions and responses.                                               *)
(***************************************************************************)
HTTPException(status_code, detail, headers) ==
    [status |-> status_code, detail |-> detail, headers |-> headers]

NoHeaders == {}
WWWAuthenticateBearer == {<<"WWW-Authenticate", "Bearer">>}

Raise(exc) == [raised |-> TRUE, exc |-> exc]
Return(v) == [raised |-> FALSE, value |-> v]

(***************************************************************************)
(* app/security.py: the dependencies.                                      *)
(***************************************************************************)
\* OAuth2PasswordBearer(..., auto_error=False): a missing header is passed on
\* as no token, which then fails to decode.
oauth2_scheme_optional(authorization) ==
    IF authorization = Nothing THEN Return(MalformedToken)
    ELSE Return(authorization[1])

\* OAuth2PasswordBearer(tokenUrl="users/token"): the bearer token of the
\* Authorization header; authorization is Nothing when the header is absent.
oauth2_scheme(authorization) ==
    IF authorization = Nothing
    THEN Raise(HTTPException(401, "Not authenticated", WWWAuthenticateBearer))
    ELSE Return(authorization[1])

credentials_exception ==
    HTTPException(401, "Could not validate credentials", WWWAuthenticateBearer)

\* A lookup that reports the missing account as such.
get_current_user_not_found(token, tbl, t) ==
    LET token_data == decode_access_token(token, t)
    IN IF token_data = None THEN Raise(credentials_exception)
       ELSE LET user == get_user_by_email(tbl, token_data.username)
            IN IF user = None
               THEN Raise(HTTPException(404, "User not found", NoHeaders))
               ELSE Return(user)

get_current_user(token, tbl, t) ==
    LET token_data == decode_access_token(token, t)
    IN IF token_data = None THEN Raise(credentials_exception)
       ELSE LET user == get_user_by_email(tbl, token_data.username)
            IN IF user = None THEN Raise(credentials_exception)
               ELSE Return(user)

get_current_active_user(current_user) == current_user

\* An owner gate that lets every role through.
get_current_owner_any_role(current_user) == Return(current_user)

get_current_owner(current_user) ==
    IF current_user.role # "owner"
    THEN Raise(HTTPException(403,
            "Not authorized to perform this action. Owner role required.",
            NoHeaders))
    ELSE Return(current_user)

\* A role hierarchy in which an Owner passes the Customer gate.
get_current_customer_or_owner(current_user) ==
    IF current_user.role \notin {"customer", "owner"}
    THEN Raise(HTTPException(403,
            "Not authorized to perform this action. Customer role required.",
            NoHeaders))
    ELSE Return(current_user)

get_current_customer(current_user) ==
    IF current_user.role # "customer"
    THEN Raise(HTTPException(403,
            "Not authorized to perform this action. Customer role required.",
            NoHeaders))
    ELSE Return(current_user)

(***************************************************************************)
(* Requests.  A request is [op, authorization, pid, rid, body]: the route, *)
(* the Authorization header (Nothing, or Some(token)), the path ids (0     *)
(* where the route has none) and the JSON body (None where it has none).   *)
(***************************************************************************)
OwnerOps == {"create_project_for_owner", "read_projects_for_owner",
             "create_requirement_for_project", "update_single_requirement",
             "update_single_requirement_status", "delete_single_requirement"}
CustomerOps == {"read_all_projects", "read_requirements_for_project"}
\* app/routers/users.py: the routes that take no token.
OpenOps == {"register_user", "login_for_access_token"}

\* Routes declared with Depends(get_current_active_user): no role check.
RouteDependency_active(op, current_user) == Return(current_user)

\* The role dependency each route declares.
RouteDependency(op, current_user) ==
    IF op \in OwnerOps THEN get_current_owner(current_user)
    ELSE get_current_customer(current_user)

\* FastAPI resolves the dependency chain oauth2_scheme, get_current_user,
\* get_current_active_user, get_current_owner / get_current_customer; the
\* first exception ends the request.
SolveDependencies(req, tbl, t) ==
    LET token == oauth2_scheme(req.authorization)
    IN IF req.op \in OpenOps THEN Return(None)
       ELSE IF token.raised THEN token
       ELSE LET current_user == get_current_user(token.value, tbl, t)
            IN IF current_user.raised THEN current_user
               ELSE RouteDependency(req.op,
                        get_current_active_user(current_user.value))

\* Pydantic validation of the body against the route's schema, which runs once
\* the dependencies are solved.  Each check gives the errors of one field:
\* its location and the type of the error.
FieldError(loc, type) == <<[loc |-> loc, type |-> type]>>

\* Field(min_length=lo, max_length=hi); hi = 0 stands for no maximum.
StrLength(loc, v, lo, hi) ==
    IF Len(v) < lo THEN FieldError(loc, "string_too_short")
    ELSE IF hi > 0 /\ Len(v) > hi THEN FieldError(loc, "string_too_long")
    ELSE <<>>

\* An enum field takes only the enum's values.
EnumMember(loc, v, enum) == IF v \in enum THEN <<>> ELSE FieldError(loc, "enum")

\* EmailStr: one "@" after a non-empty local part, and a domain with a dot
\* that is neither its first nor its last character.
IsEmail(v) ==
    \E at \in 2..Len(v) :
        /\ SubSeq(v, at, at) = "@"
        /\ \A i \in 1..Len(v) : SubSeq(v, i, i) = "@" => i = at
        /\ SubSeq(v, at + 1, at + 1) # "."
        /\ SubSeq(v, Len(v), Len(v)) # "."
        /\ \E dot \in (at + 2)..(Len(v) - 1) : SubSeq(v, dot, dot) = "."

EmailStr(loc, v) == IF IsEmail(v) THEN <<>> ELSE FieldError(loc, "value_error")

ValidationErrors(req) ==
    CASE req.op = "register_user" ->
            StrLength("username", req.body.username, 3, 50)
            \o EmailStr("email", req.body.email)
            \o StrLength("password", req.body.password, 8, 0)
            \o EnumMember("role", req.body.role, UserRole)
      [] req.op = "create_project_for_owner" ->
            StrLength("name", req.body.name, 3, 100)
      [] req.op = "create_requirement_for_project" ->
            StrLength("description", req.body.description, 5, 0)
            \o EnumMember("type", req.body.type, RequirementType)
      [] req.op = "update_single_requirement" ->
            (IF req.body.description = Nothing THEN <<>>
             ELSE StrLength("description", req.body.description[1], 5, 0))
            \o (IF req.body.type = Nothing THEN <<>>
                ELSE EnumMember("type", req.body.type[1], RequirementType))
      [] req.op = "update_single_requirement_status" ->
            EnumMember("status", req.body.status, RequirementStatus)
      [] OTHER -> <<>>

ValidBody(req) == ValidationErrors(req) = <<>>

NoEvent == [kind |-> "none"]

\* What a step leaves in `last`: the response that ends a request ...
Response(req, user, status_code, detail, headers, body) ==
    [kind |-> "response", req |-> req, user |-> user, status |-> status_code,
     detail |-> detail, headers |-> headers, body |-> body]

FromException(req, user, exc) ==
    Response(req, user, exc.status, exc.detail, exc.headers, None)

\* ... an exception no handler catches (Starlette answers 500) ...
ServerError(req, user) ==
    Response(req, user, 500, "Internal Server Error", NoHeaders, None)

\* ... or a commit by a request that goes on.
Committed(req, user, row) ==
    [kind |-> "commit", req |-> req, user |-> user, row |-> row]

Busy == BagCardinality(inflight)

Serving(r) == BagIn(r, inflight)

Finish(r, response) ==
    /\ inflight' = inflight (-) SetToBag({r})
    /\ last' = response

Goto(r, pc, obj, event) ==
    /\ inflight' = (inflight (-) SetToBag({r}))
                     (+) SetToBag({[r EXCEPT !.pc = pc, !.obj = obj]})
    /\ last' = event

\* Rows the requests being served may still insert.
Pending(op) ==
    BagCardinality([r \in {q \in BagToSet(inflight) :
                             q.req.op = op /\ q.pc \in {"handler", "username", "insert"}}
                    |-> inflight[r]])

(***************************************************************************)
(* A request arrives at a free worker: the dependencies are solved (one    *)
(* lookup of the account) and the body is validated.                       *)
(***************************************************************************)
Arrive(workers, maxReqs, req) ==
    /\ Busy < workers
    /\ req.op = "create_project_for_owner"
          => /\ Cardinality(projects) + Pending(req.op) < MaxProjects
             /\ NextId(projects) + Pending(req.op) <= MaxProjectId
    /\ req.op = "create_requirement_for_project"
          => Cardinality(requirements) + Pending(req.op) < maxReqs
    /\ req.op = "register_user"
          => /\ Cardinality(users) + Pending(req.op) < MaxUsers
             /\ NextId(users) + Pending(req.op) <= MaxUserId
    /\ LET dep == SolveDependencies(req, users, now)
       IN IF dep.raised
          THEN /\ last' = FromException(req, None, dep.exc)
               /\ UNCHANGED inflight
          ELSE IF ~ValidBody(req)
          THEN /\ last' = Response(req, dep.value, 422, ValidationErrors(req),
                                   NoHeaders, None)
               /\ UNCHANGED inflight
          ELSE /\ inflight' = inflight (+) SetToBag({[req |-> req, user |-> dep.value,
                                                      pc |-> "handler", obj |-> None]})
               /\ last' = NoEvent
    /\ UNCHANGED <<users, projects, requirements, now, minted, probe, deleted>>

(***************************************************************************)
(* app/routers/projects.py                                                 *)
(***************************************************************************)
\* create_project_for_owner -> crud.create_project: INSERT and commit.
create_project_for_owner ==
  \E r \in BagToSet(inflight) :
    /\ Serving(r) /\ r.req.op = "create_project_for_owner" /\ r.pc = "handler"
    /\ LET res == create_project(projects, r.req.body, r.user.id)
       IN /\ projects' = res.table
          /\ Goto(r, "refresh", res.row, Committed(r.req, r.user, res.row))
    /\ UNCHANGED <<users, requirements, now, minted, probe, deleted>>

\* db.refresh(db_project) and the 201 response.
create_project_refresh ==
  \E r \in BagToSet(inflight) :
    /\ Serving(r) /\ r.req.op = "create_project_for_owner" /\ r.pc = "refresh"
    /\ LET row == Refresh(projects, r.obj)
       IN IF row = None THEN Finish(r, ServerError(r.req, r.user))
          ELSE Finish(r, Response(r.req, r.user, 201, "", NoHeaders, row))
    /\ UNCHANGED <<users, projects, requirements, now, minted, probe, deleted>>

read_projects_for_owner ==
  \E r \in BagToSet(inflight) :
    /\ Serving(r) /\ r.req.op = "read_projects_for_owner" /\ r.pc = "handler"
    /\ Finish(r, Response(r.req, r.user, 200, "", NoHeaders,
                 get_projects_by_owner(projects, r.user.id, DefaultSkip, DefaultLimit)))
    /\ UNCHANGED <<users, projects, requirements, now, minted, probe, deleted>>

read_all_projects ==
  \E r \in BagToSet(inflight) :
    /\ Serving(r) /\ r.req.op = "read_all_projects" /\ r.pc = "handler"
    /\ Finish(r, Response(r.req, r.user, 200, "", NoHeaders,
                 get_all_projects(projects, DefaultSkip, DefaultLimit)))
    /\ UNCHANGED <<users, projects, requirements, now, minted, probe, deleted>>

(***************************************************************************)
(* app/routers/requirements.py.  One action per database round trip of a   *)
(* handler, in the handler's order.                                        *)
(***************************************************************************)
StoreOthers == <<users, projects, now, minted, probe, deleted>>

\* The handler without its ownership check.
create_requirement_for_project_unchecked ==
  \E r \in BagToSet(inflight) :
    /\ Serving(r) /\ r.req.op = "create_requirement_for_project" /\ r.pc = "handler"
    /\ LET db_project == get_project(projects, r.req.pid)
       IN IF db_project = None
          THEN Finish(r, FromException(r.req, r.user,
                   HTTPException(404, "Project not found", NoHeaders)))
          ELSE Goto(r, "insert", None, NoEvent)
    /\ UNCHANGED <<requirements, StoreOthers>>

\* create_requirement_for_project: get_project and the two checks.
create_requirement_for_project ==
  \E r \in BagToSet(inflight) :
    /\ Serving(r) /\ r.req.op = "create_requirement_for_project" /\ r.pc = "handler"
    /\ LET db_project == get_project(projects, r.req.pid)
       IN IF db_project = None
          THEN Finish(r, FromException(r.req, r.user,
                   HTTPException(404, "Project not found", NoHeaders)))
          ELSE IF db_project.owner_id # r.user.id
          THEN Finish(r, FromException(r.req, r.user,
                   HTTPException(403, "Not authorized to add requirements to this project",
                                 NoHeaders)))
          ELSE Goto(r, "insert", None, NoEvent)
    /\ UNCHANGED <<requirements, StoreOthers>>

\* crud.create_project_requirement: INSERT and commit.
create_requirement_insert ==
  \E r \in BagToSet(inflight) :
    /\ Serving(r) /\ r.req.op = "create_requirement_for_project" /\ r.pc = "insert"
    /\ LET res == create_project_requirement(requirements, r.req.body, r.req.pid)
       IN /\ requirements' = res.table
          /\ Goto(r, "refresh", res.row, Committed(r.req, r.user, res.row))
    /\ UNCHANGED StoreOthers

\* db.refresh(db_requirement) and the 201 response.
create_requirement_refresh ==
  \E r \in BagToSet(inflight) :
    /\ Serving(r) /\ r.req.op = "create_requirement_for_project" /\ r.pc = "refresh"
    /\ LET row == Refresh(requirements, r.obj)
       IN IF row = None THEN Finish(r, ServerError(r.req, r.user))
          ELSE Finish(r, Response(r.req, r.user, 201, "", NoHeaders, row))
    /\ UNCHANGED <<requirements, StoreOthers>>

MutatingOps == {"update_single_requirement", "update_single_requirement_status",
                "delete_single_requirement"}

NotAuthorizedDetail(op) ==
    CASE op = "update_single_requirement" -> "Not authorized to update this requirement"
      [] op = "update_single_requirement_status" ->
            "Not authorized to update this requirement's status"
      [] op = "delete_single_requirement" -> "Not authorized to delete this requirement"

\* update_single_requirement, update_single_requirement_status and
\* delete_single_requirement begin alike: get_requirement, 404 when absent.
fetch_requirement ==
  \E r \in BagToSet(inflight) :
    /\ Serving(r) /\ r.req.op \in MutatingOps /\ r.pc = "handler"
    /\ LET db_requirement == get_requirement(requirements, r.req.rid)
       IN IF db_requirement = None
          THEN Finish(r, FromException(r.req, r.user,
                   HTTPException(404, "Requirement not found", NoHeaders)))
          ELSE Goto(r, "check", db_requirement, NoEvent)
    /\ UNCHANGED <<requirements, StoreOthers>>

\* A delete handler that calls crud.delete_requirement before it has compared
\* the owner.
check_ownership_after_delete ==
  \E r \in BagToSet(inflight) :
    /\ Serving(r) /\ r.req.op \in MutatingOps /\ r.pc = "check"
    /\ LET db_project == get_project(projects, r.obj.project_id)
       IN IF db_project = None \/ db_project.owner_id # r.user.id
          THEN /\ Finish(r, FromException(r.req, r.user,
                      HTTPException(403, NotAuthorizedDetail(r.req.op), NoHeaders)))
               /\ requirements' = IF r.req.op = "delete_single_requirement"
                                  THEN delete_requirement_commit(requirements, r.obj)
                                  ELSE requirements
          ELSE /\ Goto(r, "write", r.obj, NoEvent)
               /\ UNCHANGED requirements
    /\ UNCHANGED StoreOthers

\* ... then get_project of the loaded requirement and the ownership check.
check_ownership ==
  \E r \in BagToSet(inflight) :
    /\ Serving(r) /\ r.req.op \in MutatingOps /\ r.pc = "check"
    /\ LET db_project == get_project(projects, r.obj.project_id)
       IN IF db_project = None \/ db_project.owner_id # r.user.id
          THEN Finish(r, FromException(r.req, r.user,
                   HTTPException(403, NotAuthorizedDetail(r.req.op), NoHeaders)))
          ELSE Goto(r, "write", r.obj, NoEvent)
    /\ UNCHANGED <<requirements, StoreOthers>>

\* crud.update_requirement / crud.update_requirement_status: the assignments
\* and db.commit().
Assigned(r) ==
    IF r.req.op = "update_single_requirement"
    THEN update_requirement_assign(r.obj, r.req.body)
    ELSE update_requirement_status_assign(r.obj, r.req.body)

update_requirement_commit ==
  \E r \in BagToSet(inflight) :
    /\ Serving(r) /\ r.pc = "write"
    /\ r.req.op \in {"update_single_requirement", "update_single_requirement_status"}
    /\ LET flushed == FlushUpdate(requirements, r.obj, Assigned(r))
       IN IF flushed.stale
          THEN /\ Finish(r, ServerError(r.req, r.user))
               /\ UNCHANGED requirements
          ELSE /\ requirements' = flushed.table
               /\ Goto(r, "refresh", r.obj, Committed(r.req, r.user, r.obj))
    /\ UNCHANGED StoreOthers

\* db.refresh(db_requirement) and the 200 response.
update_requirement_refresh ==
  \E r \in BagToSet(inflight) :
    /\ Serving(r) /\ r.pc = "refresh"
    /\ r.req.op \in {"update_single_requirement", "update_single_requirement_status"}
    /\ LET row == Refresh(requirements, r.obj)
       IN IF row = None THEN Finish(r, ServerError(r.req, r.user))
          ELSE Finish(r, Response(r.req, r.user, 200, "", NoHeaders, row))
    /\ UNCHANGED <<requirements, StoreOthers>>

\* crud.delete_requirement: the query by id; the handler ignores its result
\* and answers 204 when no row is found.
delete_requirement_lookup ==
  \E r \in BagToSet(inflight) :
    /\ Serving(r) /\ r.req.op = "delete_single_requirement" /\ r.pc = "write"
    /\ LET db_requirement == delete_requirement_query(requirements, r.req.rid)
       IN IF db_requirement = None
          THEN Finish(r, Response(r.req, r.user, 204, "", NoHeaders, None))
          ELSE Goto(r, "delete", db_requirement, NoEvent)
    /\ UNCHANGED <<requirements, StoreOthers>>

\* db.delete(db_requirement), db.commit() and the 204 response.
delete_requirement_delete ==
  \E r \in BagToSet(inflight) :
    /\ Serving(r) /\ r.req.op = "delete_single_requirement" /\ r.pc = "delete"
    /\ requirements' = delete_requirement_commit(requirements, r.obj)
    /\ deleted' = deleted \cup {r.obj.id}
    /\ Finish(r, Response(r.req, r.user, 204, "", NoHeaders, None))
    /\ UNCHANGED <<users, projects, now, minted, probe>>

\* read_requirements_for_project: get_project, 404 when absent ...
read_requirements_for_project ==
  \E r \in BagToSet(inflight) :
    /\ Serving(r) /\ r.req.op = "read_requirements_for_project" /\ r.pc = "handler"
    /\ LET db_project == get_project(projects, r.req.pid)
       IN IF db_project = None
          THEN Finish(r, FromException(r.req, r.user,
                   HTTPException(404, "Project not found", NoHeaders)))
          ELSE Goto(r, "list", None, NoEvent)
    /\ UNCHANGED <<requirements, StoreOthers>>

\* ... then get_requirements_by_project.
read_requirements_list ==
  \E r \in BagToSet(inflight) :
    /\ Serving(r) /\ r.req.op = "read_requirements_for_project" /\ r.pc = "list"
    /\ Finish(r, Response(r.req, r.user, 200, "", NoHeaders,
                 get_requirements_by_project(requirements, r.req.pid,
                                             DefaultSkip, DefaultLimit)))
    /\ UNCHANGED <<requirements, StoreOthers>>

\* The steps of the requests being served, by router.
ServeProjects ==
        \/ create_project_for_owner
        \/ create_project_refresh
        \/ read_projects_for_owner
        \/ read_all_projects

ServeRequirements ==
        \/ create_requirement_for_project
        \/ create_requirement_insert
        \/ create_requirement_refresh
        \/ fetch_requirement
        \/ check_ownership
        \/ update_requirement_commit
        \/ update_requirement_refresh
        \/ delete_requirement_lookup
        \/ delete_requirement_delete
        \/ read_requirements_for_project
        \/ read_requirements_list

(***************************************************************************)
(* app/security.py: get_password_hash, verify_password, authenticate_user. *)
(***************************************************************************)
\* pwd_context.hash draws a fresh salt.
get_password_hash(password, salt) == bcrypt(password, salt)

\* A stored string is a bcrypt hash when it has the scheme's prefix and its
\* salt and digest parts.
IsBcryptHash(hashed_password) ==
    /\ DOMAIN hashed_password = {"scheme", "salt", "digest"}
    /\ hashed_password.scheme = "bcrypt"

\* passlib.exc.UnknownHashError and MalformedHashError are ValueErrors.
UnknownHashError == "ValueError"

\* pwd_context.verify identifies the scheme of the stored hash, raising when
\* it cannot, and recomputes the digest with the salt of the stored hash.
verify_password(plain_password, hashed_password) ==
    IF ~IsBcryptHash(hashed_password) THEN Raise(UnknownHashError)
    ELSE Return(hashed_password.digest = <<Truncate(plain_password), hashed_password.salt>>)

\* Authentication that does not verify the password.
authenticate_user_unverified(tbl, username, password) ==
    Return(get_user_by_email(tbl, username))

\* The account is looked up by email with the form's username field.
authenticate_user(tbl, username, password) ==
    LET user == get_user_by_email(tbl, username)
    IN IF user = None THEN Return(None)
       ELSE LET verified == verify_password(password, user.hashed_password)
            IN IF verified.raised THEN verified
               ELSE IF ~verified.value THEN Return(None)
               ELSE Return(user)

(***************************************************************************)
(* app/crud.py: create_user.  The unique indexes on username and email     *)
(* make the INSERT raise IntegrityError.                                   *)
(***************************************************************************)
\* An insert into a users table without its unique constraints.
create_user_no_constraint(tbl, user_create, hashed_password) ==
    LET db_user == [id |-> NextId(tbl), username |-> user_create.username,
                    email |-> user_create.email,
                    hashed_password |-> hashed_password, role |-> user_create.role]
    IN [raised |-> FALSE, table |-> tbl \cup {db_user}, row |-> db_user]

create_user(tbl, user_create, hashed_password) ==
    LET db_user == [id |-> NextId(tbl), username |-> user_create.username,
                    email |-> user_create.email,
                    hashed_password |-> hashed_password, role |-> user_create.role]
    IN IF \E u \in tbl : u.username = db_user.username \/ u.email = db_user.email
       THEN [raised |-> TRUE, table |-> tbl, row |-> None]
       ELSE [raised |-> FALSE, table |-> tbl \cup {db_user}, row |-> db_user]

\* schemas.UserOut: the account without its password hash.
UserOut(u) == [id |-> u.id, username |-> u.username, email |-> u.email, role |-> u.role]

(***************************************************************************)
(* app/routers/users.py                                                    *)
(***************************************************************************)
UsersOthers == <<projects, requirements, now, minted, probe, deleted>>

\* register_user: get_user_by_email ...
\* Registration without the email pre-check.
register_user_no_email_check ==
  \E r \in BagToSet(inflight) :
    /\ Serving(r) /\ r.req.op = "register_user" /\ r.pc = "handler"
    /\ Goto(r, "username", None, NoEvent)
    /\ UNCHANGED <<users, UsersOthers>>

register_user ==
  \E r \in BagToSet(inflight) :
    /\ Serving(r) /\ r.req.op = "register_user" /\ r.pc = "handler"
    /\ IF get_user_by_email(users, r.req.body.email) # None
       THEN Finish(r, FromException(r.req, None,
                HTTPException(400, "Email already registered", NoHeaders)))
       ELSE Goto(r, "username", None, NoEvent)
    /\ UNCHANGED <<users, UsersOthers>>

\* ... get_user_by_username ...
register_user_username ==
  \E r \in BagToSet(inflight) :
    /\ Serving(r) /\ r.req.op = "register_user" /\ r.pc = "username"
    /\ IF get_user_by_username(users, r.req.body.username) # None
       THEN Finish(r, FromException(r.req, None,
                HTTPException(400, "Username already taken", NoHeaders)))
       ELSE Goto(r, "insert", None, NoEvent)
    /\ UNCHANGED <<users, UsersOthers>>

\* ... get_password_hash and create_user: INSERT and commit.
register_user_insert(Salts) ==
  \E r \in BagToSet(inflight) :
    /\ Serving(r) /\ r.req.op = "register_user" /\ r.pc = "insert"
    /\ \E salt \in Salts :
         LET res == create_user(users, r.req.body,
                                get_password_hash(r.req.body.password, salt))
         IN IF res.raised
            THEN /\ Finish(r, ServerError(r.req, None))
                 /\ UNCHANGED users
            ELSE /\ users' = res.table
                 /\ Goto(r, "refresh", res.row, Committed(r.req, None, res.row))
    /\ UNCHANGED UsersOthers

\* db.refresh(db_user) and the 201 response.
register_user_refresh ==
  \E r \in BagToSet(inflight) :
    /\ Serving(r) /\ r.req.op = "register_user" /\ r.pc = "refresh"
    /\ LET row == Refresh(users, r.obj)
       IN IF row = None THEN Finish(r, ServerError(r.req, None))
          ELSE Finish(r, Response(r.req, None, 201, "", NoHeaders, UserOut(row)))
    /\ UNCHANGED <<users, UsersOthers>>

\* login_for_access_token
login_for_access_token ==
  \E r \in BagToSet(inflight) :
    /\ Serving(r) /\ r.req.op = "login_for_access_token" /\ r.pc = "handler"
    /\ LET authenticated == authenticate_user(users, r.req.body.username,
                                              r.req.body.password)
           user == authenticated.value
           access_token == create_access_token([sub |-> user.email], Nothing, now)
       IN IF authenticated.raised
          THEN /\ Finish(r, ServerError(r.req, None))
               /\ UNCHANGED minted
          ELSE IF user = None
          THEN /\ Finish(r, FromException(r.req, None,
                      HTTPException(401, "Incorrect username or password",
                                    WWWAuthenticateBearer)))
               /\ UNCHANGED minted
          ELSE /\ minted' = minted \cup {access_token}
               /\ Finish(r, Response(r.req, user, 200, "", NoHeaders,
                      [access_token |-> access_token, token_type |-> "bearer"]))
    /\ UNCHANGED <<users, projects, requirements, now, probe, deleted>>

ServeUsers(Salts) ==
        \/ register_user
        \/ register_user_username
        \/ register_user_insert(Salts)
        \/ register_user_refresh
        \/ login_for_access_token

(***************************************************************************)
(* The environment: time passes; an administrator removes an account row.  *)
(***************************************************************************)
Tick(d) ==
    /\ now + d <= MaxClock
    /\ now' = now + d
    /\ last' = NoEvent
    /\ UNCHANGED <<users, projects, requirements, minted, inflight, probe, deleted>>

RemoveAccount(u) ==
    /\ u \in users
    /\ users' = users \ {u}
    /\ last' = NoEvent
    /\ UNCHANGED <<projects, requirements, now, minted, inflight, probe, deleted>>

\* A project row is lost from the store while its requirements stay (foreign
\* keys are not enforced).
RemoveProject(p) ==
    /\ p \in projects
    /\ projects' = projects \ {p}
    /\ last' = NoEvent
    /\ UNCHANGED <<users, requirements, now, minted, inflight, probe, deleted>>

(***************************************************************************)
(* Requests clients send.                                                  *)
(***************************************************************************)
Req(op, authorization, pid, rid, body) ==
    [op |-> op, authorization |-> authorization, pid |-> pid, rid |-> rid, body |-> body]

\* A token for Alice signed with another secret.
ForgedToken == jwt_encode([sub |-> "alice@x.io", exp |-> ACCESS_TOKEN_EXPIRE_MINUTES],
                          OtherKey, ALGORITHM)

\* Every token a client holds, plus no header, a malformed and a forged token.
Authorizations == {Nothing} \cup {Some(t) : t \in minted \cup {MalformedToken, ForgedToken}}

\* Only the tokens login handed out.
Bearers == {Some(t) : t \in minted}

\* The body of POST /projects/: the fields of ProjectCreate and a field the
\* schema does not have, which pydantic drops.
NewProjects == {[name |-> "Proj", description |-> "d", owner_id |-> 1]}

ProjectRequests(Auths) ==
    {Req("create_project_for_owner", a, 0, 0, b) : a \in Auths, b \in NewProjects}
    \cup {Req(op, a, 0, 0, None) :
             op \in {"read_projects_for_owner", "read_all_projects"}, a \in Auths}

\* Every requirement route, with existing and nonexistent ids.
RequirementRequests(Auths, Rids, Creates, Updates, Statuses) ==
    UNION {
        {Req("create_requirement_for_project", a, pid, 0, b) :
             pid \in 1..MaxProjects, b \in Creates}
        \cup {Req("read_requirements_for_project", a, pid, 0, None) : pid \in 1..MaxProjects}
        \cup {Req("update_single_requirement", a, 0, rid, b) : rid \in Rids, b \in Updates}
        \cup {Req("update_single_requirement_status", a, 0, rid, b) :
                  rid \in Rids, b \in Statuses}
        \cup {Req("delete_single_requirement", a, 0, rid, None) : rid \in Rids}
        : a \in Auths}

Creates == {[description |-> "first", type |-> "must_have"]}
Updates == {[description |-> Some("second"), type |-> Nothing]}
Statuses == {[status |-> "done"]}

(***************************************************************************)
(* Spec: the project and requirement routes served by one worker process   *)
(* (uvicorn's default), for two owners and a customer who registered in    *)
(* this order and logged in at time 0.                                     *)
(***************************************************************************)
Account(id, username, email, password, role) ==
    [id |-> id, username |-> username, email |-> email,
     hashed_password |-> bcrypt(password, "salt"), role |-> role]

Alice == Account(1, "alice", "alice@x.io", "securepass", "owner")
Carol == Account(2, "carol", "carol@x.io", "securepass", "owner")
Bob == Account(3, "bob", "bob@x.io", "securepass", "customer")

LoginToken(user, t) == create_access_token([sub |-> user.email], Nothing, t)

NoProbe == [kind |-> "none"]

Init ==
    /\ users = {Alice, Carol, Bob}
    /\ projects = {}
    /\ requirements = {}
    /\ now = 0
    /\ minted = {LoginToken(u, 0) : u \in {Alice, Carol, Bob}}
    /\ inflight = EmptyBag
    /\ last = NoEvent
    /\ probe = NoProbe
    /\ deleted = {}

Next ==
    \/ \E req \in ProjectRequests(Authorizations)
                  \cup RequirementRequests(Authorizations, 1..MaxReqs,
                                           Creates, Updates, Statuses) :
          Arrive(1, MaxReqs, req)
    \/ ServeProjects
    \/ ServeRequirements

Spec == Init /\ [][Next]_vars

(***************************************************************************)
(* SpecConc: the same routes served by two worker processes, whose         *)
(* database round trips interleave.                                        *)
(***************************************************************************)
Workers == {"w1", "w2"}

NextConc ==
    \/ \E req \in ProjectRequests(Bearers)
                  \cup RequirementRequests(Bearers, 1..MaxReqsConc,
                                           Creates, Updates, Statuses) :
          Arrive(Cardinality(Workers), MaxReqsConc, req)
    \/ ServeProjects
    \/ ServeRequirements

SpecConc == Init /\ [][NextConc]_vars

(***************************************************************************)
(* SpecAuth: accounts and tokens.  Accounts register, log in and are       *)
(* removed, time passes beyond a token's lifetime, and clients call the    *)
(* project routes.                                                         *)
(***************************************************************************)
Registrations ==
    {[username |-> "alice", email |-> "alice@x.io", password |-> "securepass", role |-> ro] :
        ro \in UserRole}
    \cup {[username |-> "carol", email |-> "carol@x.io", password |-> "securepass",
           role |-> "owner"],
          [username |-> "alice", email |-> "carol@x.io", password |-> "securepass",
           role |-> "owner"]}

\* The login form: the username field holds an email or a username.
Logins ==
    {[username |-> id, password |-> pw] :
        id \in Emails \cup {"alice"}, pw \in {"securepass", "wrongpass"}}

UserRequests ==
    {Req("register_user", Nothing, 0, 0, b) : b \in Registrations}
    \cup {Req("login_for_access_token", Nothing, 0, 0, b) : b \in Logins}

InitAuth ==
    /\ users = {}
    /\ projects = {}
    /\ requirements = {}
    /\ now = 0
    /\ minted = {}
    /\ inflight = EmptyBag
    /\ last = NoEvent
    /\ probe = NoProbe
    /\ deleted = {}

\* The protected requests of SpecAuth: the two project listings.
ListRequests ==
    {Req(op, a, 0, 0, None) :
        op \in {"read_projects_for_owner", "read_all_projects"}, a \in Authorizations}

NextAuth ==
    \/ \E req \in UserRequests \cup ListRequests : Arrive(1, MaxReqs, req)
    \/ ServeUsers({"salt"})
    \/ read_projects_for_owner
    \/ read_all_projects
    \/ Tick(ACCESS_TOKEN_EXPIRE_MINUTES + 1)
    \/ \E u \in users : RemoveAccount(u)

SpecAuth == InitAuth /\ [][NextAuth]_vars

\* The user routes served by two worker processes on one database.
NextAuthConc ==
    \/ \E req \in UserRequests : Arrive(Cardinality(Workers), MaxReqs, req)
    \/ ServeUsers({"salt"})

SpecAuthConc == InitAuth /\ [][NextAuthConc]_vars

(***************************************************************************)
(* SpecToken: the token codec on its own.  A token is minted (under the    *)
(* process secret or another one, with or without an explicit lifetime,    *)
(* with or without a subject), altered in one of its parts, and decoded as *)
(* the clock advances minute by minute.                                    *)
(***************************************************************************)
Subjects == Emails
Deltas == {Nothing, Some(-1), Some(0), Some(1), Some(2)}

\* The parts of a token string a client can alter: the claims segment (sub,
\* exp), the header segment (alg), the signature bytes (mac), and the unused
\* low-order bits of the signature's last character (slack).
Parts == {"sub", "exp", "alg", "mac", "slack"}

Alter(token, part) ==
    CASE part = "sub" ->
            [token EXCEPT !.claims.sub = CHOOSE e \in Emails : e # @]
      [] part = "exp" -> [token EXCEPT !.claims.exp = @ + 1]
      [] part = "alg" -> [token EXCEPT !.alg = "HS384"]
      [] part = "mac" -> [token EXCEPT !.mac.key = "flipped"]
      [] part = "slack" -> [token EXCEPT !.slack = 1]

Probe(token, origin, part, sub, ttl) ==
    [kind |-> "probe", tok |-> token, origin |-> origin, part |-> part, sub |-> sub,
     mintedAt |-> now, ttl |-> ttl, decoded |-> FALSE, out |-> None, at |-> 0]

TokOthers == <<users, projects, requirements, minted, inflight, last, deleted>>

\* create_access_token({"sub": sub}, expires_delta)
TokMint(sub, delta) ==
    /\ probe' = Probe(create_access_token([sub |-> sub], delta, now), "minted", "", sub,
                      IF delta = Nothing THEN ACCESS_TOKEN_EXPIRE_MINUTES ELSE delta[1])
    /\ UNCHANGED <<now, TokOthers>>

\* The same claims signed with another secret.
TokOtherSecret(sub) ==
    /\ probe' = Probe(jwt_encode([sub |-> sub, exp |-> now + ACCESS_TOKEN_EXPIRE_MINUTES],
                                 OtherKey, ALGORITHM),
                      "other-secret", "", sub, ACCESS_TOKEN_EXPIRE_MINUTES)
    /\ UNCHANGED <<now, TokOthers>>

\* create_access_token({}): signed with the process secret, no subject.
TokNoSubject ==
    /\ probe' = Probe(create_access_token(<<>>, Nothing, now), "no-subject", "", "",
                      ACCESS_TOKEN_EXPIRE_MINUTES)
    /\ UNCHANGED <<now, TokOthers>>

TokMalformed ==
    /\ probe' = Probe(MalformedToken, "malformed", "", "", 0)
    /\ UNCHANGED <<now, TokOthers>>

\* A client alters one part of a minted token.
TokAlter(part) ==
    /\ probe # NoProbe /\ probe.origin = "minted"
    /\ probe' = [probe EXCEPT !.tok = Alter(@, part), !.origin = "altered",
                              !.part = part, !.decoded = FALSE]
    /\ UNCHANGED <<now, TokOthers>>

\* decode_access_token(token) at the current time.
TokDecode ==
    /\ probe # NoProbe
    /\ probe' = [probe EXCEPT !.decoded = TRUE,
                              !.out = decode_access_token(probe.tok, now), !.at = now]
    /\ UNCHANGED <<now, TokOthers>>

\* A minute passes; the decoding made before is forgotten.
TokTick ==
    /\ now < MaxClock
    /\ now' = now + 1
    /\ probe' = IF probe = NoProbe THEN probe
                ELSE [probe EXCEPT !.decoded = FALSE, !.out = None, !.at = 0]
    /\ UNCHANGED TokOthers

NextToken ==
    \/ \E sub \in Subjects, delta \in Deltas : TokMint(sub, delta)
    \/ \E sub \in Subjects : TokOtherSecret(sub)
    \/ TokNoSubject
    \/ TokMalformed
    \/ \E part \in Parts : TokAlter(part)
    \/ TokDecode
    \/ TokTick

SpecToken == InitAuth /\ [][NextToken]_vars

(***************************************************************************)
(* SpecEdit: the requirement routes served by one worker process for the   *)
(* seeded accounts, with every shape of update body (either field given or *)
(* omitted) and both spellings of the in-progress status.                  *)
(***************************************************************************)
AllUpdates ==
    {[description |-> d, type |-> ty] :
        d \in {Nothing, Some("second")}, ty \in {Nothing, Some("nice_to_have")}}

AllStatuses == {[status |-> st] : st \in {"in_progress", "in_PROGRESS"}}

EditRequests ==
    UNION {
        {Req("create_project_for_owner", a, 0, 0, b) : b \in NewProjects}
        \cup {Req("create_requirement_for_project", a, pid, 0, b) :
                  pid \in 1..MaxProjects, b \in Creates}
        \cup {Req("update_single_requirement", a, 0, rid, b) :
                  rid \in 1..MaxReqs, b \in AllUpdates}
        \cup {Req("update_single_requirement_status", a, 0, rid, b) :
                  rid \in 1..MaxReqs, b \in AllStatuses}
        : a \in Bearers}

NextEdit ==
    \/ \E req \in EditRequests : Arrive(1, MaxReqs, req)
    \/ create_project_for_owner
    \/ create_project_refresh
    \/ create_requirement_for_project
    \/ create_requirement_insert
    \/ create_requirement_refresh
    \/ fetch_requirement
    \/ check_ownership
    \/ update_requirement_commit
    \/ update_requirement_refresh

SpecEdit == Init /\ [][NextEdit]_vars

(***************************************************************************)
(* SpecHash: password hashing on its own.  A password is hashed with a     *)
(* fresh salt, or a string that is no bcrypt hash is found stored, and a   *)
(* password is verified against it.                                        *)
(***************************************************************************)
Pad72 == "aaaaaaaaaaaaaaaaaaaaaaaaaaaaaaaaaaaaaaaaaaaaaaaaaaaaaaaaaaaaaaaaaaaaaaaa"

\* Short passwords, one of exactly 72 characters and two that extend it.
Passwords == {"securepass", "wrongpass", "Securepass", Pad72, Pad72 \o "1", Pad72 \o "2"}

HashSalts == {"salt", "pepper", "sugar"}

\* Stored strings that are no bcrypt hash: a plain password, the empty string,
\* a bcrypt prefix with its digest cut off.
MalformedHashes == {[scheme |-> "", text |-> "securepass"],
                    [scheme |-> "", text |-> ""],
                    [scheme |-> "bcrypt", salt |-> "salt"]}

HashProbe(password, hashed_password, origin) ==
    [kind |-> "hash", password |-> password, hashed_password |-> hashed_password,
     origin |-> origin, verified |-> FALSE, plain |-> "", out |-> None]

\* get_password_hash(password)
HashPassword(password, salt) ==
    /\ probe' = HashProbe(password, get_password_hash(password, salt), "hashed")
    /\ UNCHANGED <<now, TokOthers>>

HashMalformed(hashed_password) ==
    /\ probe' = HashProbe("", hashed_password, "malformed")
    /\ UNCHANGED <<now, TokOthers>>

\* verify_password(plain_password, hashed_password)
HashVerify(plain_password) ==
    /\ probe # NoProbe
    /\ probe' = [probe EXCEPT !.verified = TRUE, !.plain = plain_password,
                              !.out = verify_password(plain_password,
                                                      probe.hashed_password)]
    /\ UNCHANGED <<now, TokOthers>>

NextHash ==
    \/ \E password \in Passwords, salt \in HashSalts : HashPassword(password, salt)
    \/ \E hashed_password \in MalformedHashes : HashMalformed(hashed_password)
    \/ \E plain_password \in Passwords : HashVerify(plain_password)

SpecHash == InitAuth /\ [][NextHash]_vars

Verified == probe # NoProbe /\ probe.verified

Decoded == probe # NoProbe /\ probe.decoded

(***************************************************************************)
(* C5.  Token round trip: a token minted for subject S with a lifetime     *)
(* ttl > 0 under the process secret decodes, at any time before mint time  *)
(* + ttl, to a claim whose subject is S.                                   *)
(***************************************************************************)
C5_RoundTrip ==
    (Decoded /\ probe.origin = "minted" /\ probe.ttl > 0
        /\ probe.at < probe.mintedAt + probe.ttl)
    => probe.out = TokenData(probe.sub)

\* A token with a two-minute lifetime, decoded a minute after it was minted.
C5_Witness ==
    /\ Decoded /\ probe.origin = "minted" /\ probe.ttl = 2
    /\ probe.at = probe.mintedAt + 1
    /\ probe.out = TokenData(probe.sub)

(***************************************************************************)
(* C6.  decode yields None for a token minted under another secret, an     *)
(* expired token, an altered token, a malformed token and a signed token   *)
(* without subject; a token whose signature does not verify yields no      *)
(* subject.  As claimed: whatever part of the token was altered.           *)
(***************************************************************************)
BadSignature(token) ==
    token.kind = "jws" /\ token.mac # HS256(SECRET_KEY, token.alg, token.claims)

Expired(token, t) ==
    token.kind = "jws" /\ "exp" \in DOMAIN token.claims /\ token.claims.exp < t

C6_Rejects(AlteredParts) ==
    Decoded =>
        /\ probe.origin \in {"other-secret", "malformed", "no-subject"}
              => probe.out = None
        /\ (probe.origin = "altered" /\ probe.part \in AlteredParts) => probe.out = None
        /\ Expired(probe.tok, probe.at) => probe.out = None
        /\ BadSignature(probe.tok) => probe.out = None

C6_AnyAlteration == C6_Rejects(Parts)

\* C6 as amended: an alteration of the header, the claims or the signature
\* bytes is rejected; one confined to the unused bits of the signature's last
\* character is not.
C6_DecodeRejects == C6_Rejects(Parts \ {"slack"})

\* A token whose subject was altered after minting, decoded to None.
C6_Witness ==
    /\ Decoded /\ probe.origin = "altered" /\ probe.part = "sub"
    /\ probe.out = None

(***************************************************************************)
(* What the claims speak of.                                               *)
(***************************************************************************)
\* The account a request's token was issued to, when the token came from a
\* login, has not expired and the account is still stored; None otherwise.
AccountOf(req) ==
    IF req.authorization = Nothing THEN None
    ELSE LET token == req.authorization[1]
         IN IF token \in minted /\ token.claims.exp >= now
            THEN First({u \in users : u.email = token.claims.sub})
            ELSE None

RequiredRole(op) == IF op \in OwnerOps THEN "owner" ELSE "customer"

RoleRequiredDetail(role) ==
    IF role = "owner"
    THEN "Not authorized to perform this action. Owner role required."
    ELSE "Not authorized to perform this action. Customer role required."

Answered == last.kind = "response"

Protected(req) == req.op \in OwnerOps \cup CustomerOps

(***************************************************************************)
(* C2.  The role gate passes an authenticated account exactly when its     *)
(* role equals the role the route requires: a protected request of an      *)
(* account with another role is answered 403 with the role's message, an   *)
(* Owner is rejected by the Customer gate, and a request being served was  *)
(* resolved to an account of the required role.                            *)
(***************************************************************************)
C2_RoleGate ==
    /\ \A r \in BagToSet(inflight) :
          Protected(r.req) => r.user.role = RequiredRole(r.req.op)
    /\ (Answered /\ Protected(last.req) /\ AccountOf(last.req) # None)
          => (AccountOf(last.req).role # RequiredRole(last.req.op)
                <=> /\ last.status = 403
                    /\ last.detail = RoleRequiredDetail(RequiredRole(last.req.op)))

\* An Owner rejected by the Customer gate.
C2_Witness ==
    /\ Answered /\ last.req.op \in CustomerOps
    /\ AccountOf(last.req) # None /\ AccountOf(last.req).role = "owner"
    /\ last.status = 403
    /\ last.detail = "Not authorized to perform this action. Customer role required."

(***************************************************************************)
(* C3.  'List all projects' and 'list the requirements of a project' are   *)
(* accessible by owners too: an authenticated Owner who lists the          *)
(* requirements of an existing project, or all projects, is answered 200.  *)
(***************************************************************************)
C3_OwnerMayRead ==
    (/\ Answered /\ last.req.op \in CustomerOps
     /\ AccountOf(last.req) # None /\ AccountOf(last.req).role = "owner"
     /\ last.req.op = "read_requirements_for_project"
           => get_project(projects, last.req.pid) # None)
    => last.status = 200

(***************************************************************************)
(* C8.  A protected request without bearer token is answered 401 'Not      *)
(* authenticated', whatever the store holds, and is never handed to a      *)
(* handler (no role check, no lookup, no store change).                    *)
(***************************************************************************)
C8_NoTokenRejected ==
    /\ \A r \in BagToSet(inflight) : Protected(r.req) => r.req.authorization # Nothing
    /\ (Answered /\ Protected(last.req) /\ last.req.authorization = Nothing)
          => /\ last.status = 401
             /\ last.detail = "Not authenticated"
             /\ last.user = None

\* A request without token on a store that holds projects and requirements.
C8_Witness ==
    /\ Answered /\ Protected(last.req) /\ last.req.authorization = Nothing
    /\ last.status = 401 /\ last.detail = "Not authenticated"
    /\ projects # {} /\ requirements # {}

(***************************************************************************)
(* C9.  Whenever table projects changes, exactly one project is added, by  *)
(* a 'create project' request answered 201 whose token resolves to an      *)
(* Owner; the stored row and the response carry that account's id as       *)
(* owner_id.  A Customer's request therefore creates no project.           *)
(***************************************************************************)
C9_Insert ==
    projects' # projects =>
          \E p \in projects' \ projects :
              /\ projects' = projects \cup {p}
              /\ last'.kind = "commit"
              /\ last'.req.op = "create_project_for_owner"
              /\ last'.row = p
              /\ AccountOf(last'.req) # None
              /\ AccountOf(last'.req).role = "owner"
              /\ p.owner_id = AccountOf(last'.req).id

C9_Answer ==
    (Answered /\ last.req.op = "create_project_for_owner" /\ last.status = 201)
    => /\ last.body \in projects
       /\ AccountOf(last.req) # None
       /\ AccountOf(last.req).role = "owner"
       /\ last.body.owner_id = AccountOf(last.req).id

C9_ProjectOwner == [](C9_Answer) /\ [][C9_Insert]_vars

\* Carol, the second account, has created the first project with a body that
\* names Alice's id.
C9_Witness ==
    /\ Answered /\ last.req.op = "create_project_for_owner" /\ last.status = 201
    /\ AccountOf(last.req) = Carol /\ last.req.body.owner_id = Alice.id
    /\ last.body \in projects /\ last.body.id = 1 /\ last.body.owner_id = Carol.id

(***************************************************************************)
(* C10.  'Create requirement for project' by an authenticated Owner is     *)
(* answered 404 'Project not found' when the project does not exist, 403   *)
(* when it exists but belongs to another account, and 201 otherwise, with  *)
(* the created requirement attached to that project; table requirements    *)
(* grows only by one row at a time, inserted by such a request of the      *)
(* project's owner, so that the rejected cases create nothing.             *)
(***************************************************************************)
C10_Answer ==
    (Answered /\ last.req.op = "create_requirement_for_project" /\ last.user # None
        /\ last.status # 422)
    => LET db_project == get_project(projects, last.req.pid)
       IN IF db_project = None
          THEN last.status = 404 /\ last.detail = "Project not found"
          ELSE IF db_project.owner_id # last.user.id
          THEN last.status = 403
          ELSE /\ last.status = 201
               /\ last.body \in requirements
               /\ last.body.project_id = last.req.pid

C10_Insert ==
    (\E q \in requirements' : \A o \in requirements : o.id # q.id)
    => \E q \in requirements' \ requirements :
          /\ requirements' = requirements \cup {q}
          /\ last'.kind = "commit"
          /\ last'.req.op = "create_requirement_for_project"
          /\ q.project_id = last'.req.pid
          /\ get_project(projects, q.project_id) # None
          /\ get_project(projects, q.project_id).owner_id = last'.user.id

C10_CreateRequirement == [](C10_Answer) /\ [][C10_Insert]_vars

\* An Owner turned away from another Owner's project, which has a requirement.
C10_Witness ==
    /\ Answered /\ last.req.op = "create_requirement_for_project"
    /\ last.user # None /\ last.status = 403
    /\ get_project(projects, last.req.pid) # None
    /\ get_project(projects, last.req.pid).owner_id # last.user.id
    /\ \E q \in requirements : q.project_id = last.req.pid

(***************************************************************************)
(* C1.  Whatever the interleaving of requests, a stored requirement is     *)
(* changed or deleted only by an update, status update or delete request   *)
(* whose account is an Owner and owns the requirement's project; such a    *)
(* request by another Owner is answered 403.                               *)
(***************************************************************************)
C1_Step ==
    \A q \in requirements :
        q \notin requirements'
        => /\ last'.kind \in {"commit", "response"}
           /\ last'.req.op \in MutatingOps
           /\ last'.user.role = "owner"
           /\ get_project(projects, q.project_id) # None
           /\ get_project(projects, q.project_id).owner_id = last'.user.id

\* A request of another Owner on a stored requirement is answered 403 and
\* changes nothing.
C1_Rejected ==
    (/\ last'.kind = "response" /\ last'.req.op \in MutatingOps /\ last'.user # None
     /\ last'.status \notin {404, 422}
     /\ get_requirement(requirements, last'.req.rid) # None
     /\ LET db_project ==
               get_project(projects, get_requirement(requirements, last'.req.rid).project_id)
        IN db_project # None /\ db_project.owner_id # last'.user.id)
    => (last'.status = 403 /\ requirements' = requirements)

C1_OnlyOwnerChanges == [][C1_Step /\ C1_Rejected]_vars

(***************************************************************************)
(* C4.  Identity resolution answers 401 'Could not validate credentials'   *)
(* whenever, at the time of the request, the token does not decode to a    *)
(* valid claim or no account has the claim's subject as email: such a      *)
(* request is never handed to a handler.  A token whose account was        *)
(* removed stops resolving at once.                                        *)
(***************************************************************************)
Unresolvable(req) ==
    /\ Protected(req)
    /\ req.authorization # Nothing
    /\ AccountOf(req) = None

C4_Step ==
    /\ \A r \in BagToSet(inflight') :
          (r.pc = "handler" /\ ~BagIn(r, inflight)) => ~Unresolvable(r.req)
    /\ (last'.kind = "response" /\ last'.user = None /\ Unresolvable(last'.req))
          => /\ last'.status = 401
             /\ last'.detail = "Could not validate credentials"

C4_Resolution == [][C4_Step]_vars

\* A token from a login, within its lifetime, whose account has been removed.
C4_Witness ==
    /\ Answered /\ Protected(last.req) /\ last.req.authorization # Nothing
    /\ last.req.authorization[1] \in minted
    /\ last.req.authorization[1].claims.exp >= now
    /\ \A u \in users : u.email # last.req.authorization[1].claims.sub
    /\ last.status = 401 /\ last.detail = "Could not validate credentials"

(***************************************************************************)
(* C7.  The answer to a protected request does not tell why verification   *)
(* failed: the answer observed for a token that is expired, forged,        *)
(* malformed, or valid for an account that no longer exists is the answer  *)
(* the same request gets with any other such token.                        *)
(***************************************************************************)
Expiring == {t \in minted : t.claims.exp < now}
Orphaned == {t \in minted : t.claims.exp >= now /\ \A u \in users : u.email # t.claims.sub}
FailingTokens == Expiring \cup Orphaned \cup {ForgedToken, MalformedToken}

Outcome(response) ==
    [status |-> response.status, detail |-> response.detail,
     headers |-> response.headers, body |-> response.body]

C7_SameAnswer ==
    (/\ Answered /\ Protected(last.req) /\ last.user = None
     /\ last.req.authorization # Nothing
     /\ last.req.authorization[1] \in FailingTokens)
    => \A t \in FailingTokens :
          LET other == [last.req EXCEPT !.authorization = Some(t)]
              dep == SolveDependencies(other, users, now)
          IN /\ dep.raised
             /\ Outcome(FromException(other, None, dep.exc)) = Outcome(last)

\* An expired token is turned away while a token of a removed account is
\* still within its lifetime.
C7_Witness ==
    /\ Answered /\ Protected(last.req) /\ last.user = None
    /\ last.req.authorization # Nothing
    /\ last.req.authorization[1] \in Expiring
    /\ Orphaned # {}
    /\ last.status = 401

(***************************************************************************)
(* SpecOrphan: the routes of Spec on a store that can lose a project row   *)
(* while the project's requirements stay.                                  *)
(***************************************************************************)
NextOrphan ==
    \/ \E req \in ProjectRequests(Bearers)
                  \cup RequirementRequests(Bearers, 1..MaxReqsConc,
                                           Creates, Updates, Statuses) :
          Arrive(1, MaxReqsConc, req)
    \/ ServeProjects
    \/ ServeRequirements
    \/ \E p \in projects : RemoveProject(p)

SpecOrphan == Init /\ [][NextOrphan]_vars

(***************************************************************************)
(* C11.  The ownership check of update, status update and delete has       *)
(* three outcomes: NotFound (404) when the requirement's project is        *)
(* missing, Forbidden (403) when the project is present and owned by       *)
(* another account, Ok otherwise.                                          *)
(***************************************************************************)
Rejected(response, status_code) ==
    response.kind = "response" /\ response.status = status_code

\* The step of a request that has fetched its requirement.
C11_Check ==
    \A r \in BagToSet(inflight) :
        (r.pc = "check" /\ ~BagIn(r, inflight'))
        => LET db_project == get_project(projects, r.obj.project_id)
           IN IF db_project = None
              THEN Rejected(last', 404) /\ last'.req = r.req
              ELSE IF db_project.owner_id # r.user.id
              THEN Rejected(last', 403) /\ last'.req = r.req
              ELSE /\ BagIn([r EXCEPT !.pc = "write"], inflight')
                   /\ last'.kind = "none"

C11_MissingIsNotFound == [][C11_Check]_vars

(***************************************************************************)
(* C12.  An update, status update or delete passes its stages in the order *)
(* token decoded, identity resolved, role checked, requirement fetched,    *)
(* ownership checked, and the first failing stage answers: an invalid      *)
(* token gives 401 and a non-Owner 403 whether or not the requirement      *)
(* exists, an Owner gets 404 for a requirement that does not exist, 403    *)
(* for one of another Owner, and the store is written only by a request    *)
(* that has passed every stage.                                            *)
(***************************************************************************)
OwnerOfRequirement(q) ==
    LET db_project == get_project(projects, q.project_id)
    IN IF db_project = None THEN 0 ELSE db_project.owner_id

C12_Answer ==
    (Answered /\ last.req.op \in MutatingOps /\ last.status # 422)
    => LET db_requirement == get_requirement(requirements, last.req.rid)
       IN IF AccountOf(last.req) = None
          THEN last.status = 401 /\ last.user = None
          ELSE IF AccountOf(last.req).role # "owner"
          THEN /\ last.status = 403 /\ last.user = None
               /\ last.detail = RoleRequiredDetail("owner")
          ELSE /\ last.user = AccountOf(last.req)
               /\ last.status \in {404, 403, 200, 204}
               /\ (db_requirement = None) <=> (last.status \in {404, 204})
               /\ last.status = 204 => last.req.op = "delete_single_requirement"
               /\ last.status = 403
                     => /\ OwnerOfRequirement(db_requirement) # last.user.id
                        /\ last.detail = NotAuthorizedDetail(last.req.op)
               /\ last.status = 200 => OwnerOfRequirement(db_requirement) = last.user.id

C12_Stages ==
    \A r \in BagToSet(inflight) :
        r.req.op \in MutatingOps
        => /\ r.user = AccountOf(r.req) /\ r.user.role = "owner"
           /\ r.pc \in {"check", "write", "delete", "refresh"} => r.obj # None
           /\ r.pc \in {"write", "delete", "refresh"}
                 => OwnerOfRequirement(r.obj) = r.user.id

C12_Delegated ==
    (requirements' # requirements /\ last'.req.op \in MutatingOps)
    => \E r \in BagToSet(inflight) :
          /\ r.req = last'.req /\ r.pc \in {"write", "delete"}
          /\ OwnerOfRequirement(r.obj) = r.user.id

C12_StageOrder == [](C12_Answer /\ C12_Stages) /\ [][C12_Delegated]_vars

\* A Customer's update of a requirement that does not exist: 403, not 404.
C12_Witness ==
    /\ Answered /\ last.req.op \in MutatingOps
    /\ AccountOf(last.req) # None /\ AccountOf(last.req).role = "customer"
    /\ get_requirement(requirements, last.req.rid) = None
    /\ last.status = 403

(***************************************************************************)
(* SpecApp: every route of the application, served by one worker, from an  *)
(* empty database: accounts register and log in, then use the project and  *)
(* requirement routes, also with bodies the schemas reject.                *)
(***************************************************************************)
\* One field of a valid registration replaced by a value its schema rejects.
InvalidRegistrations ==
    LET valid == [username |-> "carol", email |-> "carol@x.io", password |-> "securepass",
                  role |-> "owner"]
    IN {[valid EXCEPT !.username = "ca"], [valid EXCEPT !.email = "carol@x"],
        [valid EXCEPT !.password = "short"], [valid EXCEPT !.role = "admin"]}

InvalidRequests ==
    {Req("register_user", Nothing, 0, 0, b) : b \in InvalidRegistrations}
    \cup UNION {
        {Req("create_project_for_owner", a, 0, 0,
             [name |-> "P", description |-> "d", owner_id |-> 1]),
         Req("create_requirement_for_project", a, 1, 0,
             [description |-> "abcd", type |-> "must_have"]),
         Req("update_single_requirement", a, 0, 1,
             [description |-> Some("abcd"), type |-> Nothing])}
        : a \in Bearers}

NextApp ==
    \/ \E req \in UserRequests \cup ProjectRequests(Authorizations)
                  \cup RequirementRequests(Authorizations, 1..MaxReqsConc,
                                           Creates, Updates, Statuses)
                  \cup InvalidRequests :
          Arrive(1, MaxReqsConc, req)
    \/ ServeUsers({"salt"})
    \/ ServeProjects
    \/ ServeRequirements

SpecApp == InitAuth /\ [][NextApp]_vars

(***************************************************************************)
(* C13.  A request that ends rejected (400, 401, 403, 404) has left        *)
(* accounts, projects and requirements as they were: the step that rejects *)
(* changes no table and no earlier step of that request has written; a     *)
(* table changes only in the step that inserts, commits or deletes for an  *)
(* authorized request.                                                     *)
(***************************************************************************)
Store == <<users, projects, requirements>>

RejectedStatus == {400, 401, 403, 404}

C13_Frame ==
    /\ (last'.kind = "response" /\ last'.status \in RejectedStatus)
          => /\ Store' = Store
             /\ \A r \in BagToSet(inflight) :
                   (r.req = last'.req /\ ~BagIn(r, inflight'))
                   => r.pc \in {"handler", "username", "check"}
    /\ Store' # Store
          => /\ \/ last'.kind = "commit"
                \/ last'.kind = "response" /\ last'.status \in {201, 204}
             /\ \E r \in BagToSet(inflight) :
                   /\ r.req = last'.req /\ ~BagIn(r, inflight')
                   /\ r.pc \in {"handler", "insert", "write", "delete"}

C13_RejectedChangesNothing == [][C13_Frame]_vars

\* An Owner refused on another Owner's requirement, which is still stored.
C13_Witness ==
    /\ Rejected(last, 403) /\ last.req.op \in MutatingOps /\ last.user # None
    /\ get_requirement(requirements, last.req.rid) # None
    /\ OwnerOfRequirement(get_requirement(requirements, last.req.rid)) # last.user.id

(***************************************************************************)
(* C14.  Once an Owner's delete of requirement R has succeeded, R is gone  *)
(* for good: no requirement with R's id is stored or listed again, and an  *)
(* update or status update of R is answered 404, a delete 404 (or the 204  *)
(* of the delete that removed it), whatever requests follow.               *)
(***************************************************************************)
C14_GoneForGood ==
    /\ \A id \in deleted : get_requirement(requirements, id) = None
    /\ (Answered /\ last.req.op = "read_requirements_for_project" /\ last.status = 200)
          => \A q \in Range(last.body) : q.id \notin deleted
    /\ (Answered /\ last.req.op \in MutatingOps /\ last.user # None
          /\ last.status # 422 /\ last.req.rid \in deleted)
          => IF last.req.op = "delete_single_requirement"
             THEN last.status \in {404, 204}
             ELSE last.status = 404

(***************************************************************************)
(* C15.  Login issues a token only when an account is found for the        *)
(* submitted identifier and the submitted password is the account's; the   *)
(* answer is then a bearer token whose subject is the account's email.  A  *)
(* login with an unknown identifier and one with a wrong password get the  *)
(* same 401 'Incorrect username or password' with WWW-Authenticate: Bearer *)
(* and no token.                                                           *)
(***************************************************************************)
\* The accounts the login form identifies; the form's password is an account's
\* when verify_password returns true for it against the stored hash.
Identified(form) == {u \in users : u.email = form.username}

C15_Answer ==
    (Answered /\ last.req.op = "login_for_access_token")
    => IF \E u \in Identified(last.req.body) :
             verify_password(last.req.body.password, u.hashed_password) = Return(TRUE)
       THEN /\ last.status = 200
            /\ last.body.token_type = "bearer"
            /\ last.body.access_token \in minted
            /\ \E u \in Identified(last.req.body) :
                  last.body.access_token.claims.sub = u.email
       ELSE /\ last.status = 401
            /\ last.detail = "Incorrect username or password"
            /\ last.headers = {<<"WWW-Authenticate", "Bearer">>}
            /\ last.body = None

C15_Issue ==
    minted' # minted
    => /\ last'.kind = "response" /\ last'.req.op = "login_for_access_token"
       /\ last'.status = 200
       /\ minted' = minted \cup {last'.body.access_token}
       /\ \E u \in Identified(last'.req.body) :
             verify_password(last'.req.body.password, u.hashed_password) = Return(TRUE)

C15_Login == [](C15_Answer) /\ [][C15_Issue]_vars

\* A wrong password for a registered account.
C15_Witness ==
    /\ Rejected(last, 401) /\ last.req.op = "login_for_access_token"
    /\ Identified(last.req.body) # {}
    /\ \A u \in Identified(last.req.body) :
          verify_password(last.req.body.password, u.hashed_password) = Return(FALSE)
    /\ last.detail = "Incorrect username or password"

(***************************************************************************)
(* C16.  An account registered with username U, email E # U and password P *)
(* logs in with U and P: the answer is 200 with a bearer token.            *)
(***************************************************************************)
C16_LoginByUsername ==
    (/\ Answered /\ last.req.op = "login_for_access_token"
     /\ \E u \in users : /\ u.username = last.req.body.username
                         /\ u.username # u.email
                         /\ verify_password(last.req.body.password,
                                            u.hashed_password) = Return(TRUE))
    => (last.status = 200 /\ last.body.token_type = "bearer")

(***************************************************************************)
(* C17.  A registration whose email is that of a stored account is         *)
(* answered 400 'Email already registered', one whose username is that of  *)
(* a stored account 400 'Username already taken'; neither changes the      *)
(* accounts, and no other registration is answered 400.                    *)
(***************************************************************************)
C17_Step ==
    \A r \in BagToSet(inflight) :
        (r.req.op = "register_user" /\ ~BagIn(r, inflight'))
        => LET email_taken == \E u \in users : u.email = r.req.body.email
               username_taken == \E u \in users : u.username = r.req.body.username
           IN /\ (r.pc = "handler" /\ email_taken)
                    => /\ Rejected(last', 400) /\ users' = users
                       /\ last'.detail = "Email already registered"
              /\ (r.pc = "username" /\ username_taken)
                    => /\ Rejected(last', 400) /\ users' = users
                       /\ last'.detail = "Username already taken"
              /\ Rejected(last', 400)
                    => \/ r.pc = "handler" /\ email_taken
                       \/ r.pc = "username" /\ username_taken /\ ~email_taken

C17_Duplicate == [][C17_Step]_vars

\* A new email with the username of a stored account.
C17_Witness ==
    /\ Rejected(last, 400) /\ last.req.op = "register_user"
    /\ last.detail = "Username already taken"
    /\ \E u \in users : u.username = last.req.body.username
    /\ \A u \in users : u.email # last.req.body.email

(***************************************************************************)
(* C18.  In every reachable state, registrations in flight together        *)
(* included, no two accounts have the same username and no two have the    *)
(* same email.                                                             *)
(***************************************************************************)
C18_Unique ==
    \A u \in users : \A v \in users :
        (u.username = v.username \/ u.email = v.email \/ u.id = v.id) => u = v

\* Two registrations passed the handler's checks together; the insert of the
\* second met the account the first one stored.
C18_Witness ==
    /\ last.kind = "response" /\ last.req.op = "register_user" /\ last.status = 500
    /\ \E u \in users : u.email = last.req.body.email \/ u.username = last.req.body.username

(***************************************************************************)
(* C19.  Under every interleaving of requests, every request ends in       *)
(* success or in one of the typed outcomes (400, 401, 403, 404, 422):      *)
(* none ends in an unhandled fault, which the server answers with 500.     *)
(***************************************************************************)
C19_NoFault ==
    Answered => last.status \in {200, 201, 204, 400, 401, 403, 404, 422}

(***************************************************************************)
(* C20.  A Customer who lists the requirements of a project is answered    *)
(* 404 'Project not found' when no project has that id and otherwise,      *)
(* whoever owns the project, 200 with exactly the requirements of that     *)
(* project, each once (all of them fit the default page).                  *)
(***************************************************************************)
C20_CustomerReads ==
    (/\ Answered /\ last.req.op = "read_requirements_for_project"
     /\ last.user # None /\ last.user.role = "customer")
    => IF get_project(projects, last.req.pid) = None
       THEN last.status = 404 /\ last.detail = "Project not found"
       ELSE /\ last.status = 200
            /\ Range(last.body) = {q \in requirements : q.project_id = last.req.pid}
            /\ Len(last.body) = Cardinality(Range(last.body))

\* A Customer has listed a project of an Owner while another project holds a
\* requirement too.
C20_Witness ==
    /\ Answered /\ last.req.op = "read_requirements_for_project"
    /\ last.user # None /\ last.user.role = "customer"
    /\ last.status = 200 /\ last.body # <<>>
    /\ \E p \in projects : p.id = last.req.pid /\ p.owner_id # last.user.id
    /\ \E q \in requirements : q.project_id # last.req.pid

(***************************************************************************)
(* C21.  'List own projects' by an Owner is answered 200 with exactly the  *)
(* projects whose owner_id is the caller's id, each once (all of them fit  *)
(* the default page); it holds no project of another account.              *)
(***************************************************************************)
C21_OwnProjects ==
    (/\ Answered /\ last.req.op = "read_projects_for_owner"
     /\ last.user # None /\ last.user.role = "owner")
    => /\ last.status = 200
       /\ Range(last.body) = {p \in projects : p.owner_id = last.user.id}
       /\ Len(last.body) = Cardinality(Range(last.body))
       /\ last.user = AccountOf(last.req)

\* An Owner has listed their project while another Owner has one too.
C21_Witness ==
    /\ Answered /\ last.req.op = "read_projects_for_owner"
    /\ last.user # None /\ last.status = 200 /\ last.body # <<>>
    /\ \E p \in projects : p.owner_id # last.user.id

(***************************************************************************)
(* C22.  verify(P, hash(P)) is true for every password P, and              *)
(* verify(P1, hash(P2)) is false for all passwords P1 different from P2.   *)
(***************************************************************************)
C22_VerifyIffSame ==
    (Verified /\ probe.origin = "hashed")
    => probe.out = Return(probe.plain = probe.password)

(***************************************************************************)
(* C23.  verify(password, storedHash) returns false, and does not raise,   *)
(* when storedHash is not a well-formed hash.                              *)
(***************************************************************************)
C23_MalformedIsFalse ==
    (Verified /\ probe.origin = "malformed") => probe.out = Return(FALSE)

(***************************************************************************)
(* C24.  A token minted at time T without an explicit lifetime, as login   *)
(* mints it, carries the expiry T + 30 minutes: it decodes to its subject  *)
(* at every time before T + 30 and is rejected at every time after it;     *)
(* the same token with a later expiry written into it is rejected.         *)
(***************************************************************************)
C24_DefaultLifetime ==
    (Decoded /\ probe.ttl = ACCESS_TOKEN_EXPIRE_MINUTES)
    => /\ probe.origin = "minted"
          => /\ probe.tok.claims.exp = probe.mintedAt + 30
             /\ probe.at < probe.mintedAt + 30 => probe.out = TokenData(probe.sub)
             /\ probe.at > probe.mintedAt + 30 => probe.out = None
       /\ (probe.origin = "altered" /\ probe.part = "exp") => probe.out = None

\* The token is rejected 31 minutes after it was minted.
C24_Witness ==
    /\ Decoded /\ probe.origin = "minted" /\ probe.ttl = ACCESS_TOKEN_EXPIRE_MINUTES
    /\ probe.at = probe.mintedAt + 31 /\ probe.out = None

(***************************************************************************)
(* C25.  The commit of an update request changes, in the requirement it    *)
(* names, exactly the fields the body supplies: an omitted description or  *)
(* type keeps its value, id, status and project_id keep theirs, and every  *)
(* other requirement is left as it was.  The answer is 200 with the        *)
(* stored row.                                                             *)
(***************************************************************************)
C25_Commit ==
    (last' # last /\ last'.kind = "commit" /\ last'.req.op = "update_single_requirement")
    => LET body == last'.req.body
           old == get_requirement(requirements, last'.req.rid)
           new == get_requirement(requirements', last'.req.rid)
       IN /\ old # None /\ new # None
          /\ requirements' \ {new} = requirements \ {old}
          /\ new.id = old.id /\ new.status = old.status
          /\ new.project_id = old.project_id
          /\ new.description = IF body.description = Nothing THEN old.description
                               ELSE body.description[1]
          /\ new.type = IF body.type = Nothing THEN old.type ELSE body.type[1]

C25_Answer ==
    (Answered /\ last.req.op = "update_single_requirement" /\ last.status = 200)
    => /\ last.body = get_requirement(requirements, last.req.rid)
       /\ last.req.body.description # Nothing
             => last.body.description = last.req.body.description[1]
       /\ last.req.body.type # Nothing => last.body.type = last.req.body.type[1]

C25_UpdateFrame == [](C25_Answer) /\ [][C25_Commit]_vars

\* An update of the type alone, of a requirement whose status had been set,
\* with another requirement stored.
C25_Witness ==
    /\ Answered /\ last.req.op = "update_single_requirement" /\ last.status = 200
    /\ last.req.body.description = Nothing /\ last.req.body.type = Some("nice_to_have")
    /\ last.body.description = "first" /\ last.body.status # "pending"
    /\ Cardinality(requirements) = 2

(***************************************************************************)
(* C26.  An Owner's status update that carries the status "in_progress",   *)
(* for a requirement of a project they own, is answered 200 and the status *)
(* returned and stored is "in_progress".                                   *)
(***************************************************************************)
C26_InProgress ==
    (/\ Answered /\ last.req.op = "update_single_requirement_status"
     /\ last.req.body.status = "in_progress"
     /\ last.user # None /\ last.user.role = "owner"
     /\ \E q \in requirements : \E p \in projects :
           q.id = last.req.rid /\ p.id = q.project_id /\ p.owner_id = last.user.id)
    => /\ last.status = 200
       /\ last.body.status = "in_progress"
       /\ get_requirement(requirements, last.req.rid).status = "in_progress"

(***************************************************************************)
(* C27.  A token resolves only to the account it was issued for: a token   *)
(* login issued whose account has been removed stays unresolvable, no step *)
(* (a registration with the same email in particular) makes it resolve to  *)
(* an account again.                                                       *)
(***************************************************************************)
C27_Step ==
    \A token \in Orphaned : get_current_user(token, users', now').raised

C27_IssuedFor == [][C27_Step]_vars

(***************************************************************************)
(* C28.  In every state reachable through the routes, each project's       *)
(* owner_id is the id of a stored account whose role is Owner.             *)
(***************************************************************************)
C28_OwnedByOwner ==
    \A p \in projects : \E u \in users : u.id = p.owner_id /\ u.role = "owner"

\* A Customer's attempt to create a project was refused while an Owner's
\* project is stored.
C28_Witness ==
    /\ Answered /\ last.req.op = "create_project_for_owner" /\ last.status = 403
    /\ projects # {}
    /\ \E u \in users : u.role = "customer"

(***************************************************************************)
(* C29.  In every state reachable through the routes, each requirement's   *)
(* project_id is the id of a stored project: no requirement is orphaned.   *)
(***************************************************************************)
C29_NoOrphan ==
    \A q \in requirements : \E p \in projects : p.id = q.project_id

\* With two projects stored, the ownership walk of an update has found the
\* requirement's project and its owner.
C29_Witness ==
    /\ Answered /\ last.req.op = "update_single_requirement" /\ last.status = 200
    /\ \E q \in requirements : q.id = last.req.rid
          /\ get_project(projects, q.project_id) # None
          /\ get_project(projects, q.project_id).owner_id = last.user.id
    /\ Cardinality(projects) = 2

(***************************************************************************)
(* C30.  A delete request is answered 204 only by a step that removes the  *)
(* requirement: it was stored when the request's delete action ran.  Of    *)
(* two deletes of one requirement that both passed the checks, at most one *)
(* is answered 204.                                                        *)
(***************************************************************************)
C30_Step ==
    (/\ BagCardinality(inflight') < BagCardinality(inflight)
     /\ last'.kind = "response" /\ last'.req.op = "delete_single_requirement"
     /\ last'.status = 204)
    => /\ get_requirement(requirements, last'.req.rid) # None
       /\ get_requirement(requirements', last'.req.rid) = None

C30_DeleteOnce == [][C30_Step]_vars

====
